---- MODULE Spec2Model ----
(***************************************************************************)
(* Model of the SEO audit tool: the SEOAuditor pipeline (seo_audit.py) and *)
(* the Flask job layer that runs it on background threads and caches the   *)
(* reports by audit id (web_interface.py).                                 *)
(*                                                                         *)
(* Strings that the code inspects (URLs, hrefs) are sequences of tokens;   *)
(* Python dicts are functions with string domains; a reference to a dict   *)
(* is the index of the thread that owns it.                                *)
(***************************************************************************)
EXTENDS Integers, Sequences, FiniteSets, TLC

VARIABLES
  now,                  \* wall clock, in whole seconds (datetime.now())
  pyhash,               \* hash() of each str in this process
  jobs,                 \* the run_audit threads started so far
  audit_results_cache,  \* web_interface.audit_results_cache: id -> results
  report,               \* the report text that main() prints
  auditor,              \* the SEOAuditor of the command line program
  world,                \* what the network and the page answer to it
  answer                \* the answer to the last POST /audit

vars ==
  <<now, pyhash, jobs, audit_results_cache, report, auditor, world, answer>>

(***************************************************************************)
(* Bounds of the model.                                                    *)
(***************************************************************************)
MaxJobs == 2
MaxClock == 1
MaxFailures == 1

(***************************************************************************)
(* Python values.                                                          *)
(***************************************************************************)
None == "None"

EmptyDict == [x \in {} |-> None]

Put(d, k, v) == [x \in (DOMAIN d) \cup {k} |-> IF x = k THEN v ELSE d[x]]

Has(d, k) == k \in DOMAIN d

Get(d, k, default) == IF k \in DOMAIN d THEN d[k] ELSE default

StartsWith(s, p) == Len(s) >= Len(p) /\ SubSeq(s, 1, Len(p)) = p

StartsWithAny(s, ps) == \E p \in ps : StartsWith(s, p)

Min(a, b) == IF a <= b THEN a ELSE b

(* mutant of Prefix: the whole sequence *)
PrefixAll(s, n) == s

(* s[:n] *)
Prefix(s, n) == SubSeq(s, 1, Min(n, Len(s)))

RECURSIVE SumSeq(_)
SumSeq(s) == IF s = <<>> THEN 0 ELSE Head(s) + SumSeq(Tail(s))

(* round(num / den, 1) in tenths: Python rounds to the nearest tenth and   *)
(* an exact tie goes to the even tenth.                                    *)
RoundTenths(num, den) ==
  LET q == (num * 10) \div den
      r == (num * 10) % den
  IN  IF 2 * r > den THEN q + 1
      ELSE IF 2 * r < den THEN q
      ELSE IF q % 2 = 0 THEN q ELSE q + 1

(***************************************************************************)
(* URLs.  A URL is a sequence of tokens: an optional scheme token, a host  *)
(* token, then path tokens.                                                *)
(***************************************************************************)
SchemeTokens == {<<"http://">>, <<"https://">>}

PathTokens == {"/", "/about", "/sitemap.xml", "/robots.txt", "/a.com"}

Urls == { <<"a.com">>, <<"https://", "b.com", "/">>, <<"http://", "[">> }

(* url = 'https://' + url unless it already names a scheme *)
NormalizeUrl(url) ==
  IF StartsWithAny(url, SchemeTokens) THEN url ELSE <<"https://">> \o url

(* urlparse(url) raises ValueError("Invalid IPv6 URL") on an unbalanced    *)
(* bracket in the network location                                        *)
UrlparseRaises(url) == Len(url) >= 2 /\ url[2] \in {"[", "]"}

(* urlparse(url).netloc of a normalized url *)
Netloc(url) == IF Len(url) >= 2 /\ url[2] \notin PathTokens THEN url[2] ELSE ""

(* urljoin(base, ref) for the references the code builds *)
urljoin(base, ref) ==
  IF StartsWithAny(ref, SchemeTokens) THEN ref
  ELSE IF ref = <<>> THEN base
  ELSE IF Head(ref) \in PathTokens THEN <<base[1], Netloc(base)>> \o ref
  ELSE <<base[1], Netloc(base)>> \o ref

(* urljoin raises ValueError on a reference with an unbalanced bracket *)
UrljoinRaises(ref) == StartsWithAny(ref, SchemeTokens) /\ UrlparseRaises(ref)

(***************************************************************************)
(* The fetched page.  The document model (self.soup) is a record of what   *)
(* the analyzers query in it; the response is its header dict.             *)
(***************************************************************************)
Anchor(href, text) == [href |-> href, text |-> text]

DocRich ==
  [ viewport |-> "width=device-width", robots |-> <<"INDEX", "follow">>,
    canonical |-> "https://b.com/",
    json_ld |-> <<"valid", "malformed">>, microdata |-> 1, rdfa |-> 0,
    links |-> << Anchor(<<"/about">>, "About"), Anchor(<<"#", "top">>, "Top"),
                 Anchor(<<"https://", "x.org", "/a.com">>, "Other"),
                 Anchor(<<"mailto:", "me">>, "Mail") >>,
    nav_links |-> 6, nav_elements |-> 1,
    title_len |-> 45, desc_len |-> 130, h1 |-> 1, h2 |-> 2,
    imgs |-> 2, imgs_alt |-> 2, imgs_lazy |-> 1,
    words |-> 320, sentences |-> 20,
    style_media |-> 1, other_media |-> 0,
    labels |-> 1, inputs |-> 1, aria_labels |-> 4, social_tags |-> 6 ]

DocPoor ==
  [ viewport |-> None, robots |-> <<"NoIndex", "nofollow">>,
    canonical |-> None,
    json_ld |-> <<>>, microdata |-> 0, rdfa |-> 0,
    links |-> << Anchor(<<"http://", "[">>, "Bad"), Anchor(<<>>, "Empty") >>,
    nav_links |-> 0, nav_elements |-> 0,
    title_len |-> 20, desc_len |-> 0, h1 |-> 0, h2 |-> 0,
    imgs |-> 0, imgs_alt |-> 0, imgs_lazy |-> 0,
    words |-> 12, sentences |-> 0,
    style_media |-> 0, other_media |-> 0,
    labels |-> 0, inputs |-> 0, aria_labels |-> 0, social_tags |-> 2 ]

(* a page with more anchors than the link probe samples: links to the page's *)
(* own host, to other hosts, and to other hosts whose url holds "a.com";    *)
(* its form has three label elements for one input                         *)
DocLong ==
  [ DocPoor EXCEPT
      !.labels = 3, !.inputs = 1, !.aria_labels = 4, !.h1 = 1,
      !.links =
        [ i \in 1..22 |->
            CASE i = 2 -> Anchor(<<"https://", "x.org", "/">>, "Other")
              [] i = 4 -> Anchor(<<"https://", "x.org", "/a.com">>, "Path")
              [] i = 7 -> Anchor(<<"https://", "nota.com", "/">>, "Host")
              [] i = 10 -> Anchor(<<"https://", "x.org", "/about">>, "About")
              [] OTHER -> Anchor(<<"/about">>, "Own") ] ]

Pages == {"rich", "poor", "long"}

DocOf(page) ==
  CASE page = "rich" -> DocRich
    [] page = "long" -> DocLong
    [] OTHER -> DocPoor

SecurityHeaderNames ==
  << "Content-Security-Policy", "X-Frame-Options", "X-Content-Type-Options",
     "Strict-Transport-Security", "Referrer-Policy", "X-XSS-Protection" >>

HeadersRich ==
  [ h \in { "Content-Security-Policy", "X-Frame-Options",
            "X-Content-Type-Options", "Strict-Transport-Security",
            "Content-Encoding", "Cache-Control", "ETag", "Server" } |->
      CASE h = "Content-Encoding" -> "GZIP"
        [] h = "Server" -> "Cloudflare"
        [] OTHER -> "set" ]

HeadersPoor == [ h \in {"Server"} |-> "Apache" ]

HeadersOf(page) == IF page = "rich" THEN HeadersRich ELSE HeadersPoor

(* str.lower() on the header and meta values that occur *)
Lower(s) ==
  CASE s = "GZIP" -> "gzip"
    [] s = "Cloudflare" -> "cloudflare"
    [] s = "Apache" -> "apache"
    [] s = "INDEX" -> "index"
    [] s = "NoIndex" -> "noindex"
    [] OTHER -> s

(***************************************************************************)
(* The checks, by category, in the order the code runs them.               *)
(***************************************************************************)
TechnicalChecks ==
  << "response_time", "https_ssl", "mobile_friendly", "indexability",
     "xml_sitemap", "robots_txt", "canonical_tags", "structured_data",
     "broken_links" >>

OnPageChecks ==
  << "title_tags", "meta_description", "heading_structure",
     "image_optimization", "internal_linking", "content_analysis" >>

OffPageChecks == << "domain_authority", "social_signals", "backlink_analysis" >>

UxChecks == << "navigation", "accessibility", "responsive_design" >>

SecurityChecks == << "security_headers", "performance_enhancements" >>

Range(s) == { s[i] : i \in DOMAIN s }

AllChecks ==
  Range(TechnicalChecks) \cup Range(OnPageChecks) \cup Range(OffPageChecks)
    \cup Range(UxChecks) \cup Range(SecurityChecks)

(* The checks whose body can raise into the try/except that wraps it: the  *)
(* body of response_time and backlink_analysis calls nothing that raises,  *)
(* and _get_domain_info catches everything itself.                         *)
RaisableChecks ==
  AllChecks \ {"response_time", "backlink_analysis", "domain_authority"}

ExcMessages == {"Connection timed out", "NoneType has no attribute"}

(* the sets of at most n checks that raise *)
RECURSIVE ExcSets(_)
ExcSets(n) ==
  IF n = 0 THEN {{}}
  ELSE LET P == ExcSets(n - 1)
       IN  P \cup { S \cup {c} : S \in P, c \in RaisableChecks }

(* every check of one category raises (the checks of technical_seo and of  *)
(* off_page_seo cannot all raise)                                          *)
CategoryFailures ==
  { Range(OnPageChecks), Range(UxChecks), Range(SecurityChecks) }

(***************************************************************************)
(* What the network answers.  The answer to a HEAD request is a status     *)
(* code or a transport exception.                                          *)
(***************************************************************************)
(* timedelta.days: whole days of a difference of seconds *)
SecondsPerDay == 86400

HeadAnswer(code) == [raised |-> FALSE, status_code |-> code]

HeadException == [raised |-> TRUE, status_code |-> 0]

NetGood ==
  [ ssl_ok |-> TRUE, sitemap_status |-> 200, robots_status |-> 200,
    whois_ok |-> TRUE, creation_date |-> -4000 * SecondsPerDay,
    head |-> <<HeadAnswer(200)>>,
    pagespeed |-> "data", pagespeed_score |-> 95 ]

NetBad ==
  [ ssl_ok |-> FALSE, sitemap_status |-> 404, robots_status |-> 500,
    whois_ok |-> FALSE, creation_date |-> 0,
    head |-> <<HeadAnswer(404), HeadException, HeadAnswer(200)>>,
    pagespeed |-> "error", pagespeed_score |-> 0 ]

(* a domain registered 366 days before second 1 of the model's clock *)
NetYoung == [ NetGood EXCEPT !.creation_date = 1 - 366 * SecondsPerDay ]

Nets == {"good", "bad"}

NetOf(net) ==
  CASE net = "good" -> NetGood
    [] net = "young" -> NetYoung
    [] OTHER -> NetBad

FetchOutcomes == {"ok", "ConnectionError", "ReadTimeout"}

(***************************************************************************)
(* An analyzer body either returns its finding or raises.                  *)
(***************************************************************************)
Ok(f) == [raised |-> FALSE, value |-> f, msg |-> ""]

Raise(m) == [raised |-> TRUE, value |-> EmptyDict, msg |-> m]

Body(w, check, f) == IF check \in w.exc THEN Raise(w.msg) ELSE Ok(f)

(* mutant of TryCheck: the failure is recorded as a status and a           *)
(* recommendation                                                          *)
TryCheckStatus(r) ==
  IF r.raised THEN [status |-> "error", recommendation |-> r.msg] ELSE r.value

(* try: d[check] = <body>  except Exception as e: d[check] = {'error': str(e)} *)
TryCheck(r) == IF r.raised THEN [error |-> r.msg] ELSE r.value

(***************************************************************************)
(* Technical SEO analyzers.  a is the SEOAuditor, w the world.             *)
(***************************************************************************)
response_time(w) ==
  Ok([ value |-> 0, status |-> "good",
       recommendation |-> "Good response time" ])

(* TLS handshake with the host on port 443; any failure gives False *)
check_ssl_certificate(w) == NetOf(w.net).ssl_ok

https_ssl(a, w) ==
  LET is_https == StartsWith(a.url, <<"https://">>)
  IN  Body(w, "https_ssl",
        [ is_https |-> is_https,
          ssl_valid |-> check_ssl_certificate(w),
          status |-> IF is_https THEN "good" ELSE "poor",
          recommendation |->
            IF ~is_https THEN "Ensure HTTPS is properly implemented"
            ELSE "HTTPS properly implemented" ])

mobile_friendly(a, w) ==
  LET has_viewport == a.soup.viewport # None
  IN  Body(w, "mobile_friendly",
        [ has_viewport_meta |-> has_viewport,
          viewport_content |-> a.soup.viewport,
          status |-> IF has_viewport THEN "good" ELSE "poor",
          recommendation |->
            IF ~has_viewport
            THEN "Add viewport meta tag for mobile optimization"
            ELSE "Viewport meta tag found" ])

indexability(a, w) ==
  LET robots_content == [i \in DOMAIN a.soup.robots |-> Lower(a.soup.robots[i])]
      noindex == "noindex" \in Range(robots_content)
      nofollow == "nofollow" \in Range(robots_content)
  IN  Body(w, "indexability",
        [ robots_meta_tag |->
            IF robots_content # <<>> THEN robots_content ELSE <<"none">>,
          allows_indexing |-> ~noindex,
          allows_following |-> ~nofollow,
          status |-> IF ~noindex THEN "good" ELSE "poor",
          recommendation |->
            IF noindex THEN "Remove noindex directive"
            ELSE "Page allows indexing" ])

xml_sitemap(a, w) ==
  LET sitemap_url == urljoin(a.url, <<"/sitemap.xml">>)
      has_sitemap == NetOf(w.net).sitemap_status = 200
  IN  Body(w, "xml_sitemap",
        [ sitemap_url |-> sitemap_url,
          exists |-> has_sitemap,
          status |-> IF has_sitemap THEN "good" ELSE "needs_improvement",
          recommendation |->
            IF ~has_sitemap THEN "Create and submit XML sitemap"
            ELSE "XML sitemap found" ])

robots_txt(a, w) ==
  LET robots_url == urljoin(a.url, <<"/robots.txt">>)
      has_robots == NetOf(w.net).robots_status = 200
  IN  Body(w, "robots_txt",
        [ robots_url |-> robots_url,
          exists |-> has_robots,
          content |-> IF has_robots THEN "User-agent: *" ELSE None,
          status |-> IF has_robots THEN "good" ELSE "needs_improvement",
          recommendation |->
            IF ~has_robots THEN "Create robots.txt file"
            ELSE "Robots.txt found" ])

canonical_tags(a, w) ==
  LET has_canonical == a.soup.canonical # None
  IN  Body(w, "canonical_tags",
        [ has_canonical |-> has_canonical,
          canonical_url |-> a.soup.canonical,
          status |-> IF has_canonical THEN "good" ELSE "needs_improvement",
          recommendation |->
            IF ~has_canonical
            THEN "Add canonical tag to prevent duplicate content issues"
            ELSE "Canonical tag implemented" ])

(* json.loads of a malformed block raises inside the loop's own try and    *)
(* the block is skipped; it still counts in len(json_ld_scripts).          *)
analyze_structured_data(a) ==
  LET json_ld_scripts == a.soup.json_ld
      parsed == SelectSeq(json_ld_scripts, LAMBDA b : b = "valid")
      total_schemas == Len(json_ld_scripts) + a.soup.microdata + a.soup.rdfa
  IN  [ json_ld_scripts |-> parsed,
        microdata_items |-> a.soup.microdata,
        rdfa_properties |-> Min(a.soup.rdfa, 10),
        total_schemas |-> total_schemas,
        status |-> IF total_schemas > 0 THEN "good" ELSE "needs_improvement",
        recommendation |->
          IF total_schemas = 0 THEN "Add structured data markup"
          ELSE "Structured data found" ]

structured_data(a, w) == Body(w, "structured_data", analyze_structured_data(a))

(***************************************************************************)
(* Link probe.                                                             *)
(***************************************************************************)
LinkCap == 20

SkippedPrefixes == {<<"#">>, <<"mailto:">>, <<"tel:">>}

(* x in tok, for the tokens that occur *)
Contains(tok, x) ==
  \/ x = ""
  \/ tok = x
  \/ <<tok, x>> \in {<<"/a.com", "a.com">>, <<"nota.com", "a.com">>}

(* self.domain in full_url *)
DomainInUrl(domain, full_url) ==
  \E i \in DOMAIN full_url : Contains(full_url[i], domain)

(* the answer to the k-th HEAD request of the probe *)
HeadOf(w, k) ==
  LET head == NetOf(w.net).head IN head[((k - 1) % Len(head)) + 1]

(* if not href or href.startswith(('#', 'mailto:', 'tel:')): continue *)
Skipped(href) == href = <<>> \/ StartsWithAny(href, SkippedPrefixes)

(* how many of the first i links of the sample are not skipped *)
RequestNo(links, i) ==
  Cardinality({ j \in 1..i : ~Skipped(links[j].href) })

(* mutant of LinkOutcome: a transport exception is passed over *)
LinkOutcomeForgiving(a, w, links, i, checked) ==
  IF Skipped(links[i].href) THEN "skipped"
  ELSE
    LET full_url == urljoin(a.url, links[i].href)
        response == HeadOf(w, checked + RequestNo(links, i))
    IN  IF response.raised THEN "ok"
        ELSE IF response.status_code >= 400
        THEN IF DomainInUrl(a.domain, full_url) THEN "internal" ELSE "external"
        ELSE "ok"

(* the loop body for the i-th link of the sample, after checked requests   *)
(* before the sample: the link is skipped, or its HEAD request raises, or  *)
(* its status is >= 400 and it is listed as internal or as external, or    *)
(* it is in order                                                          *)
LinkOutcome(a, w, links, i, checked) ==
  IF Skipped(links[i].href) THEN "skipped"
  ELSE
    LET full_url == urljoin(a.url, links[i].href)
        response == HeadOf(w, checked + RequestNo(links, i))
    IN  IF response.raised THEN "raised"
        ELSE IF response.status_code >= 400
        THEN IF DomainInUrl(a.domain, full_url) THEN "internal" ELSE "external"
        ELSE "ok"

(* the loop over the sample, from the counters and lists bl: an exception  *)
(* of urljoin leaves the loop, any other one is counted by the bare except *)
ProbeLinks(a, w, links, bl) ==
  IF \E i \in DOMAIN links :
       ~Skipped(links[i].href) /\ UrljoinRaises(links[i].href)
  THEN Raise("Invalid IPv6 URL")
  ELSE
    LET entries ==
          [ i \in DOMAIN links |->
              [ kind |-> LinkOutcome(a, w, links, i, bl.total_checked),
                link_data |->
                  [ url |-> urljoin(a.url, links[i].href),
                    status_code |->
                      HeadOf(w, bl.total_checked + RequestNo(links, i)).status_code,
                    text |-> links[i].text ] ] ]
        Listed(kind) ==
          LET sel == SelectSeq(entries, LAMBDA e : e.kind = kind)
          IN  [ n \in DOMAIN sel |-> sel[n].link_data ]
    IN  Ok([ internal |-> bl.internal \o Listed("internal"),
             external |-> bl.external \o Listed("external"),
             total_checked |-> bl.total_checked + RequestNo(links, Len(links)),
             broken_count |->
               bl.broken_count
               + Cardinality({ i \in DOMAIN links :
                    entries[i].kind \in {"raised", "internal", "external"} }) ])

check_broken_links(a, w) ==
  LET r == ProbeLinks(a, w, Prefix(a.soup.links, LinkCap),
                      [ internal |-> <<>>, external |-> <<>>,
                        total_checked |-> 0, broken_count |-> 0 ])
  IN  IF r.raised THEN r
      ELSE Ok([ internal |-> r.value.internal,
                external |-> r.value.external,
                total_checked |-> r.value.total_checked,
                broken_count |-> r.value.broken_count,
                status |-> IF r.value.broken_count = 0 THEN "good"
                           ELSE "needs_improvement",
                recommendation |->
                  IF r.value.broken_count > 0 THEN "Fix broken links"
                  ELSE "No broken links found" ])

broken_links(a, w) ==
  IF "broken_links" \in w.exc THEN Raise(w.msg) ELSE check_broken_links(a, w)

(* mutant of audit_technical_seo: the checks share one try, so a failure   *)
(* of one of them leaves the category unset and reaches the caller         *)
audit_technical_seo_unwrapped(a, w) ==
  IF w.exc \cap Range(TechnicalChecks) # {} \/ broken_links(a, w).raised
  THEN [a EXCEPT !.audit_results = Put(@, "error", w.msg)]
  ELSE [a EXCEPT !.audit_results.technical_seo =
          [ response_time |-> response_time(w).value,
            https_ssl |-> https_ssl(a, w).value,
            mobile_friendly |-> mobile_friendly(a, w).value,
            indexability |-> indexability(a, w).value,
            xml_sitemap |-> xml_sitemap(a, w).value,
            robots_txt |-> robots_txt(a, w).value,
            canonical_tags |-> canonical_tags(a, w).value,
            structured_data |-> structured_data(a, w).value,
            broken_links |-> broken_links(a, w).value ]]

(* _audit_technical_seo: every check in its own try/except, then the       *)
(* category dict is stored in audit_results                                *)
audit_technical_seo(a, w) ==
  LET technical ==
        [ response_time |-> TryCheck(response_time(w)),
          https_ssl |-> TryCheck(https_ssl(a, w)),
          mobile_friendly |-> TryCheck(mobile_friendly(a, w)),
          indexability |-> TryCheck(indexability(a, w)),
          xml_sitemap |-> TryCheck(xml_sitemap(a, w)),
          robots_txt |-> TryCheck(robots_txt(a, w)),
          canonical_tags |-> TryCheck(canonical_tags(a, w)),
          structured_data |-> TryCheck(structured_data(a, w)),
          broken_links |-> TryCheck(broken_links(a, w)) ]
  IN  [a EXCEPT !.audit_results.technical_seo = technical]

(***************************************************************************)
(* On-page SEO analyzers.                                                  *)
(***************************************************************************)
title_tags(a, w) ==
  LET title_length == a.soup.title_len
  IN  Body(w, "title_tags",
        [ length |-> title_length,
          optimal_length |-> title_length >= 30 /\ title_length <= 60,
          status |-> IF 30 <= title_length /\ title_length <= 60
                     THEN "good" ELSE "needs_improvement",
          recommendation |-> <<"Title length is", title_length>> ])

meta_description(a, w) ==
  LET desc_length == a.soup.desc_len
  IN  Body(w, "meta_description",
        [ length |-> desc_length,
          exists |-> desc_length > 0,
          optimal_length |-> desc_length >= 120 /\ desc_length <= 160,
          status |-> IF 120 <= desc_length /\ desc_length <= 160
                     THEN "good" ELSE "needs_improvement",
          recommendation |-> <<"Meta description length is", desc_length>> ])

analyze_heading_structure(a) ==
  LET h1_count == a.soup.h1
      has_proper_structure == h1_count = 1 /\ a.soup.h2 > 0
  IN  [ h1_count |-> h1_count,
        has_single_h1 |-> h1_count = 1,
        has_h2_tags |-> a.soup.h2 > 0,
        proper_hierarchy |-> has_proper_structure,
        status |-> IF has_proper_structure THEN "good"
                   ELSE "needs_improvement",
        recommendation |->
          IF ~has_proper_structure
          THEN "Ensure single H1 and proper heading hierarchy"
          ELSE "Good heading structure" ]

analyze_images(a) ==
  LET total_images == a.soup.imgs
      images_with_alt == a.soup.imgs_alt
      good == total_images > 0 /\ images_with_alt * 100 >= 90 * total_images
  IN  [ total_images |-> total_images,
        images_with_alt |-> images_with_alt,
        alt_percentage |->
          IF total_images > 0
          THEN RoundTenths(images_with_alt * 100, total_images) ELSE 0,
        sample_analysis |-> Min(total_images, 10),
        status |-> IF good THEN "good" ELSE "needs_improvement",
        recommendation |->
          IF ~good THEN <<"Add alt text to", total_images - images_with_alt>>
          ELSE <<"Good image optimization">> ]

ExternalPrefixes ==
  {<<"http://">>, <<"https://">>, <<"mailto:">>, <<"tel:">>, <<"#">>}

analyze_internal_links(a) ==
  LET internal_links ==
        SelectSeq(a.soup.links,
          LAMBDA l : l.href # <<>> /\ ~StartsWithAny(l.href, ExternalPrefixes))
  IN  [ total_internal_links |-> Len(internal_links),
        sample_links |-> Prefix(internal_links, 10),
        status |-> IF Len(internal_links) > 5 THEN "good"
                   ELSE "needs_improvement",
        recommendation |->
          IF Len(internal_links) <= 5
          THEN "Add more internal links for better navigation"
          ELSE "Good internal linking" ]

(* for script in self.soup(["script", "style"]): script.decompose()        *)
(* removes every script and style element from the shared document         *)
Decompose(soup) == [soup EXCEPT !.json_ld = <<>>, !.style_media = 0]

analyze_content(a) ==
  LET word_count == a.soup.words
      sentence_count == a.soup.sentences
  IN  [ word_count |-> word_count,
        sentence_count |-> sentence_count,
        avg_sentence_length |->
          IF sentence_count > 0 THEN RoundTenths(word_count, sentence_count)
          ELSE 0,
        estimated_reading_time |-> RoundTenths(word_count, 200),
        status |-> IF word_count >= 300 THEN "good" ELSE "needs_improvement",
        recommendation |->
          IF word_count < 300 THEN "Add more content for better SEO"
          ELSE "Good content length" ]

(* an exception in _analyze_content is taken to come from its first call,  *)
(* before any element is removed                                           *)
audit_on_page_seo(a, w) ==
  LET on_page ==
        [ title_tags |-> TryCheck(title_tags(a, w)),
          meta_description |-> TryCheck(meta_description(a, w)),
          heading_structure |->
            TryCheck(Body(w, "heading_structure", analyze_heading_structure(a))),
          image_optimization |->
            TryCheck(Body(w, "image_optimization", analyze_images(a))),
          internal_linking |->
            TryCheck(Body(w, "internal_linking", analyze_internal_links(a))),
          content_analysis |->
            TryCheck(Body(w, "content_analysis", analyze_content(a))) ]
  IN  [a EXCEPT !.audit_results.on_page_seo = on_page,
                !.soup = IF "content_analysis" \in w.exc THEN @
                         ELSE Decompose(@)]

(***************************************************************************)
(* Off-page SEO analyzers.                                                 *)
(***************************************************************************)
(* whois lookup inside its own try/except; t is datetime.now() *)
get_domain_info(w, t) ==
  LET age_days == (t - NetOf(w.net).creation_date) \div SecondsPerDay
  IN  IF ~NetOf(w.net).whois_ok
      THEN [ error |-> "Could not retrieve domain information" ]
      ELSE [ domain_age_days |-> age_days,
             domain_age_years |-> RoundTenths(age_days * 100, 36525),
             status |-> IF age_days > 365 THEN "good" ELSE "needs_improvement",
             recommendation |->
               IF age_days < 365 THEN "Domain age affects trust signals"
               ELSE "Established domain" ]

(* mutant of check_social_signals: the Finding carries the time of the audit *)
check_social_signals_stamped(a) ==
  LET tags_count == a.soup.social_tags
  IN  [ tags_present |-> tags_count,
        total_possible |-> 8,
        checked_at |-> a.audit_results.audit_timestamp,
        status |-> IF tags_count >= 6 THEN "good" ELSE "needs_improvement",
        recommendation |-> <<"Add missing social media meta tags", 8 - tags_count>> ]

check_social_signals(a) ==
  LET tags_count == a.soup.social_tags
  IN  [ tags_present |-> tags_count,
        total_possible |-> 8,
        status |-> IF tags_count >= 6 THEN "good" ELSE "needs_improvement",
        recommendation |-> <<"Add missing social media meta tags", 8 - tags_count>> ]

(* mutant of basic_backlink_analysis: another placeholder status *)
basic_backlink_analysis_unknown ==
  [ note |-> "Comprehensive backlink analysis requires specialized tools",
    status |-> "unknown" ]

basic_backlink_analysis ==
  [ note |-> "Comprehensive backlink analysis requires specialized tools",
    status |-> "requires_external_tools" ]

audit_off_page_seo(a, w, t) ==
  LET off_page ==
        [ domain_authority |-> TryCheck(Ok(get_domain_info(w, t))),
          social_signals |->
            TryCheck(Body(w, "social_signals", check_social_signals(a))),
          backlink_analysis |-> TryCheck(Ok(basic_backlink_analysis)) ]
  IN  [a EXCEPT !.audit_results.off_page_seo = off_page]

(***************************************************************************)
(* User experience analyzers.                                              *)
(***************************************************************************)
analyze_navigation(a) ==
  LET nav_links == a.soup.nav_links
  IN  [ navigation_elements |-> a.soup.nav_elements,
        navigation_links |-> nav_links,
        status |-> IF nav_links > 5 THEN "good" ELSE "needs_improvement",
        recommendation |->
          IF nav_links <= 5 THEN "Improve navigation structure"
          ELSE "Good navigation structure" ]

(* score = alt/images*30 + labels/inputs*30 + min(aria*5, 20)              *)
(*         + (10 if h1) + min(skip*5, 10), kept as the fraction num/den    *)
analyze_accessibility(a) ==
  LET images_with_alt == a.soup.imgs_alt
      total_images == a.soup.imgs
      form_labels == a.soup.labels
      total_inputs == a.soup.inputs
      aria_labels == a.soup.aria_labels
      heading_structure == a.soup.h1 > 0
      skip_links ==
        Len(SelectSeq(a.soup.links, LAMBDA l : StartsWith(l.href, <<"#">>)))
      di == IF total_images > 0 THEN total_images ELSE 1
      dn == IF total_inputs > 0 THEN total_inputs ELSE 1
      den == di * dn
      num == (IF total_images > 0 THEN images_with_alt * 30 * dn ELSE 0)
             + (IF total_inputs > 0 THEN form_labels * 30 * di ELSE 0)
             + ( Min(aria_labels * 5, 20)
                 + (IF heading_structure THEN 10 ELSE 0)
                 + Min(skip_links * 5, 10) ) * den
  IN  [ images_with_alt |-> images_with_alt,
        total_images |-> total_images,
        form_labels |-> form_labels,
        total_inputs |-> total_inputs,
        aria_labels |-> aria_labels,
        heading_structure |-> heading_structure,
        skip_links |-> skip_links,
        accessibility_score |-> RoundTenths(num, den),
        status |-> IF num >= 70 * den THEN "good" ELSE "needs_improvement",
        recommendation |->
          IF num < 70 * den THEN "Improve accessibility features"
          ELSE "Good accessibility implementation" ]

(* len(re.findall(r'@media', str(self.soup))) reads the document as it is  *)
(* when the check runs                                                     *)
check_responsive_design(a) ==
  LET has_viewport == a.soup.viewport # None
      css_media_queries == a.soup.style_media + a.soup.other_media
  IN  [ has_viewport_meta |-> has_viewport,
        viewport_content |-> a.soup.viewport,
        css_media_queries_found |-> css_media_queries,
        status |-> IF has_viewport /\ css_media_queries > 0 THEN "good"
                   ELSE "needs_improvement",
        recommendation |->
          IF ~has_viewport THEN "Implement responsive design"
          ELSE "Responsive design indicators found" ]

audit_user_experience(a, w) ==
  LET ux ==
        [ navigation |-> TryCheck(Body(w, "navigation", analyze_navigation(a))),
          accessibility |->
            TryCheck(Body(w, "accessibility", analyze_accessibility(a))),
          responsive_design |->
            TryCheck(Body(w, "responsive_design", check_responsive_design(a))) ]
  IN  [a EXCEPT !.audit_results.user_experience = ux]

(***************************************************************************)
(* Security and performance analyzers.                                     *)
(***************************************************************************)
check_security_headers(a) ==
  LET headers == a.response
      present_headers ==
        Len(SelectSeq(SecurityHeaderNames, LAMBDA h : Has(headers, h)))
      total_headers == Len(SecurityHeaderNames)
  IN  [ headers_present |-> present_headers,
        total_possible |-> total_headers,
        security_score |-> RoundTenths(present_headers * 100, total_headers),
        status |-> IF present_headers >= 4 THEN "good"
                   ELSE "needs_improvement",
        recommendation |->
          <<"Implement missing security headers",
            total_headers - present_headers>> ]

CdnIndicators ==
  {"cloudflare", "amazonaws", "azure", "googleusercontent", "fastly", "maxcdn"}

B2I(b) == IF b THEN 1 ELSE 0

check_performance_enhancements(a) ==
  LET headers == a.response
      gzip_compression == Lower(Get(headers, "Content-Encoding", "")) = "gzip"
      cache_control == Has(headers, "Cache-Control")
      etag == Has(headers, "ETag")
      last_modified == Has(headers, "Last-Modified")
      lazy_images == a.soup.imgs_lazy
      server_header == Lower(Get(headers, "Server", ""))
      cdn_usage == server_header \in CdnIndicators
      score == B2I(gzip_compression) * 20 + B2I(cache_control) * 20
               + B2I(etag) * 15 + B2I(last_modified) * 15
               + B2I(lazy_images > 0) * 15 + B2I(cdn_usage) * 15
  IN  [ gzip_compression |-> gzip_compression,
        cache_control |-> cache_control,
        etag |-> etag,
        last_modified |-> last_modified,
        lazy_loading_images |-> lazy_images,
        cdn_usage |-> cdn_usage,
        performance_score |-> score,
        status |-> IF score >= 70 THEN "good" ELSE "needs_improvement",
        recommendation |->
          IF score < 70 THEN "Implement performance optimizations"
          ELSE "Good performance optimizations" ]

audit_security_performance(a, w) ==
  LET security ==
        [ security_headers |->
            TryCheck(Body(w, "security_headers", check_security_headers(a))),
          performance_enhancements |->
            TryCheck(Body(w, "performance_enhancements",
                          check_performance_enhancements(a))) ]
  IN  [a EXCEPT !.audit_results.security_performance = security]

(***************************************************************************)
(* PageSpeed Insights, only with an API key.                               *)
(***************************************************************************)
VitalStatus(score) ==
  IF score >= 90 THEN "good"
  ELSE IF score >= 50 THEN "needs_improvement" ELSE "poor"

get_pagespeed_data(w, strategy) ==
  LET net == NetOf(w.net)
  IN  IF net.pagespeed = "error" THEN [ error |-> "API key not valid" ]
      ELSE [ performance_score |-> net.pagespeed_score,
             core_web_vitals |->
               [ lcp |-> [ score |-> net.pagespeed_score,
                           status |-> VitalStatus(net.pagespeed_score) ] ],
             strategy |-> strategy ]

audit_pagespeed_insights(a, w) ==
  IF a.pagespeed_api_key = None
  THEN [a EXCEPT !.audit_results.pagespeed_insights =
                   [ error |-> "No API key provided" ]]
  ELSE [a EXCEPT !.audit_results.pagespeed_insights =
                   [ mobile |-> get_pagespeed_data(w, "mobile"),
                     desktop |-> get_pagespeed_data(w, "desktop") ]]

(***************************************************************************)
(* Scores.  A score is kept in tenths (667 stands for 66.7).               *)
(***************************************************************************)
(* mutant of StatusPoints: the points are doubled *)
StatusPointsDouble(d, counted) ==
  200 * Cardinality({ k \in counted : d[k].status = "good" })
  + 100 * Cardinality({ k \in counted : d[k].status = "needs_improvement" })

(* the points of the counted findings of a category dict: 100 for each    *)
(* 'good', 50 for each 'needs_improvement', nothing for any other status   *)
StatusPoints(d, counted) ==
  100 * Cardinality({ k \in counted : d[k].status = "good" })
  + 50 * Cardinality({ k \in counted : d[k].status = "needs_improvement" })

(* mutant of overall_score: the mean over all the values of the dict *)
overall_score_of_all(values) ==
  IF \E i \in DOMAIN values : values[i] # 0
  THEN RoundTenths(SumSeq(values), 10 * Len(values)) ELSE 0

(* mutant of overall_score: a category that scores 0 counts in the mean *)
overall_score_of_categories(values) ==
  IF \E i \in DOMAIN values : values[i] # 0
  THEN RoundTenths(SumSeq(values), 10 * (Len(values) - 1)) ELSE 0

(* round(sum(scores.values()) / len([s for s in scores.values() if s > 0]) *)
(*       if any(scores.values()) else 0, 1)                                *)
overall_score(values) ==
  LET positive == Len(SelectSeq(values, LAMBDA v : v > 0))
  IN  IF \E i \in DOMAIN values : values[i] # 0
      THEN RoundTenths(SumSeq(values), 10 * positive) ELSE 0

calculate_scores(a) ==
  LET technical == Get(a.audit_results, "technical_seo", EmptyDict)
      counted == { k \in DOMAIN technical : Has(technical[k], "status") }
      tech_items == Cardinality(counted)
      tech_score == StatusPoints(technical, counted)
      technical_seo_score ==
        IF tech_items > 0 THEN RoundTenths(tech_score, tech_items) ELSE 0
      values == << technical_seo_score, 0, 0, 0, 0, 0 >>
      scores ==
        [ technical_seo_score |-> technical_seo_score,
          on_page_seo_score |-> 0,
          off_page_seo_score |-> 0,
          user_experience_score |-> 0,
          security_performance_score |-> 0,
          overall_score |-> overall_score(values) ]
  IN  [a EXCEPT !.audit_results = Put(@, "scores", scores)]

(***************************************************************************)
(* generate_report: the report text, as the sequence of its lines.         *)
(***************************************************************************)
ReportLine(technical, check, flag) ==
  IF Has(technical, check)
  THEN << << check,
             Has(technical[check], flag) /\ technical[check][flag],
             Get(technical[check], "status", "Unknown") >> >>
  ELSE <<>>

generate_report(a) ==
  LET results == a.audit_results
      technical == Get(results, "technical_seo", EmptyDict)
  IN  << <<"Website", results.url>>,
         <<"Audit Date", results.audit_timestamp>>,
         <<"Domain", results.domain>> >>
      \o (IF Has(results, "scores")
          THEN << <<"Scores", results.scores>> >> ELSE <<>>)
      \o ReportLine(technical, "https_ssl", "is_https")
      \o ReportLine(technical, "mobile_friendly", "has_viewport_meta")
      \o ReportLine(technical, "xml_sitemap", "exists")

(***************************************************************************)
(* SEOAuditor and audit_website.                                           *)
(***************************************************************************)
(* SEOAuditor(pagespeed_api_key): __init__ *)
NewAuditor(api_key) ==
  [ pagespeed_api_key |-> api_key, url |-> <<>>, domain |-> "",
    audit_results |-> EmptyDict, soup |-> DocPoor, response |-> EmptyDict,
    pc |-> "init" ]

(* audit_website up to its try: normalize the url, take its domain, reset  *)
(* audit_results.  urlparse is outside the try.                            *)
audit_begin(a, url, t) ==
  LET nurl == NormalizeUrl(url)
  IN  [a EXCEPT !.url = nurl,
                !.domain = Netloc(nurl),
                !.audit_results =
                  [ url |-> nurl, domain |-> Netloc(nurl),
                    audit_timestamp |-> t,
                    technical_seo |-> EmptyDict, on_page_seo |-> EmptyDict,
                    off_page_seo |-> EmptyDict, user_experience |-> EmptyDict,
                    security_performance |-> EmptyDict,
                    pagespeed_insights |-> EmptyDict ],
                !.pc = "fetch"]

(* response = self.session.get(url, timeout=30); self.soup = ... *)
audit_fetch(a, w) ==
  [a EXCEPT !.soup = DocOf(w.page), !.response = HeadersOf(w.page),
            !.pc = "technical"]

(* mutant of audit_except: the scores are computed before the return *)
audit_except_scored(a, e) ==
  [calculate_scores([a EXCEPT !.audit_results = Put(@, "error", e)])
     EXCEPT !.pc = "returned"]

(* mutant of audit_except: the exception is raised again to the caller *)
audit_except_raising(a, e) == [a EXCEPT !.pc = "crashed"]

(* mutant of audit_except: the error is noted and the analyzers go on      *)
(* without a document                                                      *)
audit_except_continuing(a, e) ==
  [a EXCEPT !.audit_results = Put(@, "error", e), !.pc = "technical"]

(* except Exception as e: self.audit_results['error'] = str(e) *)
audit_except(a, e) ==
  [a EXCEPT !.audit_results = Put(@, "error", e), !.pc = "returned"]

(* if self.pagespeed_api_key: self._audit_pagespeed_insights() *)
audit_pagespeed_step(a, w) ==
  IF a.pagespeed_api_key # None THEN audit_pagespeed_insights(a, w) ELSE a

(* the body of the try of audit_website, from the fetch to the return; t   *)
(* is the wall clock while it runs                                         *)
audit_try(a, w, t) ==
  IF w.fetch # "ok" THEN audit_except(a, w.fetch)
  ELSE
    LET a0 == audit_fetch(a, w)
        a1 == audit_technical_seo(a0, w)
        a2 == audit_on_page_seo(a1, w)
        a3 == audit_off_page_seo(a2, w, t)
        a4 == audit_user_experience(a3, w)
        a5 == audit_security_performance(a4, w)
        a6 == audit_pagespeed_step(a5, w)
        a7 == calculate_scores(a6)
    IN  [a7 EXCEPT !.pc = "returned"]

(***************************************************************************)
(* The web interface: POST /audit starts a run_audit thread per request,   *)
(* the status and results routes read audit_results_cache.                 *)
(***************************************************************************)
HashModulus == 10000

(* hash() of a str differs from process to process: one process in which   *)
(* the hashes of the urls differ modulo 10000, one in which two agree      *)
(* (the hash of the empty str is 0 in every process)                       *)
PyHashes ==
  { [u \in Urls \cup {<<>>} |->
       CASE u = <<"a.com">> -> 7
         [] u = <<"https://", "b.com", "/">> -> 8
         [] u = <<>> -> 0
         [] OTHER -> -9991],
    [u \in Urls \cup {<<>>} |->
       CASE u = <<"a.com">> -> 7
         [] u = <<"https://", "b.com", "/">> -> 10007
         [] u = <<>> -> 0
         [] OTHER -> 8] }

(* str.strip() of a url: the blanks at both ends are dropped *)
Strip(s) ==
  LET inked == { i \in DOMAIN s : s[i] # " " }
  IN  IF inked = {} THEN <<>>
      ELSE SubSeq(s, CHOOSE i \in inked : \A k \in inked : i <= k,
                     CHOOSE i \in inked : \A k \in inked : i >= k)

(* str.strip() of the api keys that occur *)
StripKey(k) == IF k = " " THEN "" ELSE k

(* a POST /audit request: a JSON object, or a body that is not JSON *)
JsonBody(data) == [is_json |-> TRUE, data |-> data]

HttpRequests ==
  { JsonBody([url |-> <<" ", "a.com", " ">>]),
    JsonBody([url |-> <<"https://", "b.com", "/">>, api_key |-> "key"]),
    JsonBody([url |-> <<"http://", "[">>, api_key |-> " "]),
    JsonBody([api_key |-> "key"]),
    JsonBody([url |-> <<>>]),
    JsonBody([url |-> <<" ", " ">>, api_key |-> "key"]),
    [is_json |-> FALSE, data |-> EmptyDict] }

(* url = data.get('url', '').strip() *)
UrlOf(data) == Strip(Get(data, "url", <<>>))

(* api_key = data.get('api_key', '').strip() or None *)
ApiKeyOf(data) ==
  LET k == StripKey(Get(data, "api_key", "")) IN IF k = "" THEN None ELSE k

(* mutant of UrlMissing: the url is not looked at *)
UrlMissingNever(url) == FALSE

(* if not url *)
UrlMissing(url) == url = <<>>

NoResponse == [code |-> 0, body |-> EmptyDict]

(* f"audit_{datetime.now().strftime('%Y%m%d_%H%M%S')}_{hash(url) % 10000}" *)
AuditId(t, url) == <<"audit", t, pyhash[url] % HashModulus>>

(* an identifier that no submission is given *)
UnknownId == <<"audit", -1, 0>>

(* what the network answers to the audit of a background thread *)
WebWorlds ==
  { [fetch |-> "ok", page |-> "rich", net |-> "good", exc |-> {},
     msg |-> "Connection timed out"],
    [fetch |-> "ConnectionError", page |-> "poor", net |-> "bad", exc |-> {},
     msg |-> "Connection timed out"] }

IdleWorld ==
  [url |-> <<>>, api_key |-> None, fetch |-> "ok", page |-> "poor",
   net |-> "bad", exc |-> {}, msg |-> "Connection timed out"]

(* the results dict that the cache holds for an identifier *)
CachedResults(id) == jobs[audit_results_cache[id]].auditor.audit_results

Init ==
  /\ now = 0
  /\ pyhash \in PyHashes
  /\ jobs = <<>>
  /\ audit_results_cache = EmptyDict
  /\ report = <<>>
  /\ auditor = NewAuditor(None)
  /\ world = IdleWorld
  /\ answer = NoResponse

(* the clock is followed as long as a request can still arrive *)
Tick ==
  /\ now < MaxClock /\ Len(jobs) < MaxJobs
  /\ now' = now + 1
  /\ UNCHANGED <<pyhash, jobs, audit_results_cache, report, auditor, world,
                 answer>>

(* POST /audit with a body that is not JSON: get_json() gives no dict, the  *)
(* except branch of the route answers 500, nothing is started.  Requests   *)
(* are followed as long as a job can still be started.                     *)
StartAuditFailed(req) ==
  /\ Len(jobs) < MaxJobs
  /\ ~req.is_json
  /\ answer' = [code |-> 500, body |-> [error |-> "Unsupported Media Type"]]
  /\ UNCHANGED <<now, pyhash, jobs, audit_results_cache, report, auditor,
                 world>>

(* POST /audit with an empty or missing url: 400, nothing is started *)
StartAuditRejected(req) ==
  /\ Len(jobs) < MaxJobs
  /\ req.is_json /\ UrlMissing(UrlOf(req.data))
  /\ answer' = [code |-> 400, body |-> [error |-> "URL is required"]]
  /\ UNCHANGED <<now, pyhash, jobs, audit_results_cache, report, auditor,
                 world>>

(* POST /audit: the id is made, the thread is started, 'running' answered *)
StartAudit(req) ==
  LET url == UrlOf(req.data)
      api_key == ApiKeyOf(req.data)
  IN  /\ req.is_json /\ ~UrlMissing(url)
      /\ Len(jobs) < MaxJobs
      /\ jobs' = Append(jobs, [ url |-> url, api_key |-> api_key,
                                audit_id |-> AuditId(now, url), pc |-> "start",
                                auditor |-> NewAuditor(api_key) ])
      /\ answer' = [code |-> 200,
                      body |-> [ audit_id |-> AuditId(now, url),
                                 message |-> "Audit started successfully",
                                 status |-> "running" ]]
      /\ UNCHANGED <<now, pyhash, audit_results_cache, report, auditor, world>>

(* run_audit: auditor = SEOAuditor(...); audit_website up to its try.  A   *)
(* ValueError of urlparse is not caught and ends the thread.               *)
RunAuditBegin(j) ==
  /\ jobs[j].pc = "start"
  /\ IF UrlparseRaises(NormalizeUrl(jobs[j].url))
     THEN jobs' = [jobs EXCEPT ![j].pc = "dead"]
     ELSE jobs' = [jobs EXCEPT
                     ![j].auditor = audit_begin(@, jobs[j].url, now),
                     ![j].pc = "auditing"]
  /\ UNCHANGED <<now, pyhash, audit_results_cache, report, auditor, world,
                 answer>>

(* mutant of FinishResults: the report text is not put into the results *)
FinishResultsNoReport(a, audit_id) ==
  [a EXCEPT !.audit_results = Put(@, "audit_id", audit_id)]

(* results['audit_id'] = audit_id; results['report'] = generate_report() *)
FinishResults(a, audit_id) ==
  LET a1 == [a EXCEPT !.audit_results = Put(@, "audit_id", audit_id)]
  IN  [a1 EXCEPT !.audit_results = Put(@, "report", generate_report(a1))]

(* run_audit: the try of audit_website until it returns the results, then  *)
(* the id and the report text are put into the results                     *)
RunAuditWebsite(j) ==
  /\ jobs[j].pc = "auditing"
  /\ \E w \in WebWorlds :
       jobs' = [jobs EXCEPT
                  ![j].auditor = FinishResults(audit_try(@, w, now), jobs[j].audit_id),
                  ![j].pc = "has_report"]
  /\ UNCHANGED <<now, pyhash, audit_results_cache, report, auditor, world,
                 answer>>

(* mutant of CacheStore: the cache is rebound to a dict with the new entry *)
CacheStoreEvicting(cache, id, j) == [x \in {id} |-> j]

(* audit_results_cache[audit_id] = results *)
CacheStore(cache, id, j) == Put(cache, id, j)

RunAuditStore(j) ==
  /\ jobs[j].pc = "has_report"
  /\ audit_results_cache' = CacheStore(audit_results_cache, jobs[j].audit_id, j)
  /\ jobs' = [jobs EXCEPT ![j].pc = "done"]
  /\ UNCHANGED <<now, pyhash, report, auditor, world, answer>>

RunAudit(j) ==
  \/ RunAuditBegin(j)
  \/ RunAuditWebsite(j)
  \/ RunAuditStore(j)

(* mutant of StatusOf: an identifier that is not cached is not found *)
StatusOfNotFound(cache, id) ==
  IF id \in DOMAIN cache THEN "completed" ELSE "not_found"

(* GET /audit/<audit_id>/status *)
StatusOf(cache, id) == IF id \in DOMAIN cache THEN "completed" ELSE "running"

(* the route reads the cache and changes nothing *)
AuditStatus(id) ==
  /\ StatusOf(audit_results_cache, id) \in {"completed", "running"}
  /\ UNCHANGED vars

(* mutant of ResultsCode: only a cached identifier of the current second   *)
(* is found                                                                *)
ResultsCodeFresh(cache, id) ==
  IF id \notin DOMAIN cache \/ id[2] # now THEN 404 ELSE 200

(* GET /audit/<audit_id>/results *)
ResultsCode(cache, id) == IF id \notin DOMAIN cache THEN 404 ELSE 200

(* the body of the 200 answer is CachedResults(id) *)
AuditResults(id) ==
  /\ ResultsCode(audit_results_cache, id) \in {200, 404}
  /\ UNCHANGED vars

(* the identifiers a client may ask about *)
KnownIds == { jobs[j].audit_id : j \in DOMAIN jobs } \cup {UnknownId}

Next ==
  \/ Tick
  \/ \E req \in HttpRequests : StartAuditFailed(req)
  \/ \E req \in HttpRequests : StartAuditRejected(req)
  \/ \E req \in HttpRequests : StartAudit(req)
  \/ \E j \in DOMAIN jobs : RunAudit(j)
  \/ \E id \in KnownIds : AuditStatus(id)
  \/ \E id \in KnownIds : AuditResults(id)

Spec == Init /\ [][Next]_vars

(***************************************************************************)
(* The command line program, main() of seo_audit.py: one SEOAuditor, one   *)
(* audit_website, then generate_report.  The world holds the two inputs    *)
(* and what the network and the page answer; it does not change during     *)
(* the audit.                                                              *)
(***************************************************************************)
CliUrls == Urls \cup { <<"http://", "c.org", "/about">> }

ApiKeys == {None, "key"}

CliWorlds ==
  { w \in [ url : CliUrls, api_key : ApiKeys, fetch : FetchOutcomes,
            page : Pages, net : Nets,
            exc : ExcSets(MaxFailures) \cup CategoryFailures,
            msg : ExcMessages ] :
      /\ w.exc = {} => w.msg = "Connection timed out"
      /\ w.fetch # "ok" => w.page = "poor" /\ w.net = "bad" /\ w.exc = {} }

AuditInit ==
  /\ now = 0
  /\ pyhash = [u \in Urls |-> 0]
  /\ answer = NoResponse
  /\ jobs = <<>>
  /\ audit_results_cache = EmptyDict
  /\ report = <<>>
  /\ world \in CliWorlds
  /\ auditor = NewAuditor(world.api_key)

CliFrame ==
  UNCHANGED <<now, pyhash, jobs, audit_results_cache, world, answer>>

(* audit_website up to the try; a ValueError of urlparse leaves main() *)
CliBegin ==
  /\ auditor.pc = "init"
  /\ auditor' = IF UrlparseRaises(NormalizeUrl(world.url))
                THEN [auditor EXCEPT !.pc = "crashed"]
                ELSE audit_begin(auditor, world.url, now)
  /\ UNCHANGED report /\ CliFrame

CliFetch ==
  /\ auditor.pc = "fetch"
  /\ auditor' = IF world.fetch = "ok" THEN audit_fetch(auditor, world)
                ELSE audit_except(auditor, world.fetch)
  /\ UNCHANGED report /\ CliFrame

CliTechnical ==
  /\ auditor.pc = "technical"
  /\ auditor' = [audit_technical_seo(auditor, world) EXCEPT !.pc = "on_page"]
  /\ UNCHANGED report /\ CliFrame

CliOnPage ==
  /\ auditor.pc = "on_page"
  /\ auditor' = [audit_on_page_seo(auditor, world) EXCEPT !.pc = "off_page"]
  /\ UNCHANGED report /\ CliFrame

CliOffPage ==
  /\ auditor.pc = "off_page"
  /\ auditor' = [audit_off_page_seo(auditor, world, now) EXCEPT !.pc = "ux"]
  /\ UNCHANGED report /\ CliFrame

CliUserExperience ==
  /\ auditor.pc = "ux"
  /\ auditor' = [audit_user_experience(auditor, world) EXCEPT !.pc = "security"]
  /\ UNCHANGED report /\ CliFrame

CliSecurity ==
  /\ auditor.pc = "security"
  /\ auditor' = [audit_security_performance(auditor, world) EXCEPT
                   !.pc = IF auditor.pagespeed_api_key # None
                          THEN "pagespeed" ELSE "scores"]
  /\ UNCHANGED report /\ CliFrame

CliPagespeed ==
  /\ auditor.pc = "pagespeed"
  /\ auditor' = [audit_pagespeed_insights(auditor, world) EXCEPT !.pc = "scores"]
  /\ UNCHANGED report /\ CliFrame

CliScores ==
  /\ auditor.pc = "scores"
  /\ auditor' = [calculate_scores(auditor) EXCEPT !.pc = "returned"]
  /\ UNCHANGED report /\ CliFrame

(* report = auditor.generate_report(); print(report) *)
CliReport ==
  /\ auditor.pc = "returned"
  /\ report' = generate_report(auditor)
  /\ auditor' = [auditor EXCEPT !.pc = "reported"]
  /\ CliFrame

AuditNext ==
  \/ CliBegin
  \/ CliFetch
  \/ CliTechnical
  \/ CliOnPage
  \/ CliOffPage
  \/ CliUserExperience
  \/ CliSecurity
  \/ CliPagespeed
  \/ CliScores
  \/ CliReport

AuditSpec == AuditInit /\ [][AuditNext]_vars

(***************************************************************************)
(* Two runs of the pipeline against one world: SEOAuditor(api_key) and     *)
(* audit_website(url) twice, each at the time of the wall clock when it    *)
(* runs.  jobs holds the auditors that have returned.                      *)
(***************************************************************************)
TwinWorlds ==
  { w \in [ url : CliUrls, api_key : ApiKeys, fetch : FetchOutcomes,
            page : Pages, net : Nets \cup {"young"}, exc : ExcSets(1),
            msg : ExcMessages ] :
      /\ w.exc = {} => w.msg = "Connection timed out"
      /\ w.fetch # "ok" => w.page = "poor" /\ w.net = "bad" /\ w.exc = {}
      /\ ~UrlparseRaises(NormalizeUrl(w.url)) }

TwinInit ==
  /\ now = 0
  /\ pyhash = [u \in Urls |-> 0]
  /\ answer = NoResponse
  /\ jobs = <<>>
  /\ audit_results_cache = EmptyDict
  /\ report = <<>>
  /\ world \in TwinWorlds
  /\ auditor = NewAuditor(world.api_key)

TwinFrame ==
  UNCHANGED <<pyhash, audit_results_cache, report, auditor, world, answer>>

TwinTick ==
  /\ now < MaxClock /\ Len(jobs) < 2
  /\ now' = now + 1
  /\ UNCHANGED jobs /\ TwinFrame

(* auditor = SEOAuditor(api_key); results = auditor.audit_website(url) *)
TwinAudit ==
  /\ Len(jobs) < 2
  /\ jobs' = Append(jobs,
               audit_try(audit_begin(NewAuditor(world.api_key), world.url, now),
                         world, now))
  /\ UNCHANGED now /\ TwinFrame

TwinNext == TwinTick \/ TwinAudit

TwinSpec == TwinInit /\ [][TwinNext]_vars

(***************************************************************************)
(* Properties of the job layer (Spec).                                     *)
(***************************************************************************)
Stored(j) == jobs[j].pc = "done"

(* C1: a status query for the identifier of a submission whose thread has  *)
(* not yet stored its report answers 'running', never 'completed'.         *)
C1_RunningUntilStored ==
  \A j \in DOMAIN jobs :
    ~Stored(j) => StatusOf(audit_results_cache, jobs[j].audit_id) = "running"

C3_EveryJobCompletes ==
  \A j \in DOMAIN jobs :
    jobs[j].pc \in {"done", "dead"} =>
      jobs[j].audit_id \in DOMAIN audit_results_cache

(* C4: any two accepted submissions have different identifiers.            *)
C4_IdsDistinct ==
  \A j, k \in DOMAIN jobs : j # k => jobs[j].audit_id # jobs[k].audit_id

(* C5: the report cached under the identifier of a finished job was        *)
(* produced by an audit of that job's url, not by a job for another url.   *)
C5_ReaderGetsOwnReport ==
  \A j \in DOMAIN jobs :
    Stored(j) =>
      /\ jobs[audit_results_cache[jobs[j].audit_id]].url = jobs[j].url
      /\ CachedResults(jobs[j].audit_id).url = NormalizeUrl(jobs[j].url)

(* a cached results dict is finished: its thread is past every write, it   *)
(* carries its audit_id, its report text and either scores or an error     *)
Finished(id) ==
  LET o == audit_results_cache[id]
      r == CachedResults(id)
  IN  /\ jobs[o].pc = "done"
      /\ Has(r, "audit_id") /\ r.audit_id = id
      /\ Has(r, "report") /\ r.report = generate_report(jobs[o].auditor)
      /\ Has(r, "scores") \/ Has(r, "error")

(* C6: a reader finds under an identifier either nothing or a finished     *)
(* results dict, and no step changes a dict that the cache holds.          *)
C6_AllOrNothing ==
  /\ [](\A id \in DOMAIN audit_results_cache : Finished(id))
  /\ [][\A id \in DOMAIN audit_results_cache :
          LET o == audit_results_cache[id]
          IN  jobs'[o].auditor.audit_results = jobs[o].auditor.audit_results
       ]_vars

(* a full report is cached while another thread is still auditing *)
C6_Witness ==
  \E id \in DOMAIN audit_results_cache, j \in DOMAIN jobs :
    /\ Has(CachedResults(id), "scores")
    /\ jobs[j].pc = "auditing"
    /\ DOMAIN jobs[j].auditor.audit_results.technical_seo = {}

(***************************************************************************)
(* Properties of audit_website (AuditSpec).                                *)
(***************************************************************************)
Categories ==
  [ technical_seo |-> TechnicalChecks, on_page_seo |-> OnPageChecks,
    off_page_seo |-> OffPageChecks, user_experience |-> UxChecks,
    security_performance |-> SecurityChecks ]

Returned == auditor.pc \in {"returned", "reported"}

(* the link probe raises when urljoin meets a malformed href before the    *)
(* cap of the sample is reached                                            *)
ProbeRaises(w) ==
  ProbeLinks([url |-> <<"https://", "h">>, domain |-> "h"], w,
             Prefix(DocOf(w.page).links, LinkCap),
             [ internal |-> <<>>, external |-> <<>>,
               total_checked |-> 0, broken_count |-> 0 ]).raised

(* the check fails internally in world w, and the text of its failure *)
Fails(w, check) ==
  \/ check \in w.exc
  \/ check = "broken_links" /\ ProbeRaises(w)
  \/ check = "domain_authority" /\ ~NetOf(w.net).whois_ok

FailureText(w, check) ==
  IF check \in w.exc THEN w.msg
  ELSE IF check = "broken_links" THEN "Invalid IPv6 URL"
  ELSE "Could not retrieve domain information"

(* C7: when the page fetch fails, audit_website does not raise; it returns *)
(* a report with the url, the domain, the timestamp and a top-level error  *)
(* string.                                                                 *)
C7_FetchFailureReturnsReport ==
  /\ auditor.pc = "crashed" => UrlparseRaises(NormalizeUrl(world.url))
  /\ (world.fetch # "ok" /\ auditor.pc \notin {"init", "fetch", "crashed"}) =>
       /\ Returned
       /\ auditor.audit_results.url = NormalizeUrl(world.url)
       /\ auditor.audit_results.domain = Netloc(NormalizeUrl(world.url))
       /\ Has(auditor.audit_results, "audit_timestamp")
       /\ Has(auditor.audit_results, "error")
       /\ auditor.audit_results.error = world.fetch

C7_Witness ==
  /\ auditor.pc = "returned" /\ world.fetch = "ReadTimeout"
  /\ auditor.audit_results.error = "ReadTimeout"

(* C8, as claimed: when the page fetch fails, every analyzer still records *)
(* an error Finding in its category.                                       *)
C8_AnalyzersRecordErrors ==
  (world.fetch # "ok" /\ Returned) =>
    \A cat \in DOMAIN Categories : \A check \in Range(Categories[cat]) :
      /\ Has(auditor.audit_results[cat], check)
      /\ \/ Has(auditor.audit_results[cat][check], "error")
         \/ auditor.audit_results[cat][check].status = "error"

(* C8, amended: when the page fetch fails no analyzer runs: every category *)
(* of the returned report is empty, there are no scores, and the failure   *)
(* is recorded only in the top-level error string.                         *)
C8_NoAnalyzerRuns ==
  (world.fetch # "ok" /\ Returned) =>
    /\ \A cat \in DOMAIN Categories : DOMAIN auditor.audit_results[cat] = {}
    /\ DOMAIN auditor.audit_results.pagespeed_insights = {}
    /\ ~Has(auditor.audit_results, "scores")
    /\ Has(auditor.audit_results, "error")

C8_Witness ==
  /\ auditor.pc = "reported" /\ world.fetch = "ConnectionError"
  /\ DOMAIN auditor.audit_results.technical_seo = {}

(* C9: after a successful fetch a failure inside an analyzer or inside the *)
(* link probe does not abort the audit: every check of every category has  *)
(* its Finding, the checks that did not fail have a status, the scores are *)
(* computed and there is no top-level error.                               *)
C9_FailureIsolation ==
  (world.fetch = "ok" /\ Returned) =>
    /\ \A cat \in DOMAIN Categories :
         /\ DOMAIN auditor.audit_results[cat] = Range(Categories[cat])
         /\ \A check \in Range(Categories[cat]) :
              ~Fails(world, check) =>
                /\ Has(auditor.audit_results[cat][check], "status")
                /\ ~Has(auditor.audit_results[cat][check], "error")
    /\ Has(auditor.audit_results, "scores")
    /\ ~Has(auditor.audit_results, "error")

(* an analyzer and the link probe have failed in the same audit *)
C9_Witness ==
  /\ Returned /\ world.fetch = "ok"
  /\ world.exc # {} /\ "broken_links" \notin world.exc
  /\ Has(auditor.audit_results.technical_seo.broken_links, "error")
  /\ Has(auditor.audit_results, "scores")

(* C10, as claimed: the Finding of a check that failed internally has      *)
(* status 'error' and a recommendation holding the failure description.    *)
C10_ErrorStatusFinding ==
  (world.fetch = "ok" /\ Returned) =>
    \A cat \in DOMAIN Categories : \A check \in Range(Categories[cat]) :
      Fails(world, check) =>
        LET f == auditor.audit_results[cat][check]
        IN  /\ Has(f, "status") /\ f.status = "error"
            /\ Has(f, "recommendation")
            /\ f.recommendation = FailureText(world, check)

(* C10, amended: the Finding of a check that failed internally has neither *)
(* a status nor a recommendation: its only field is 'error', holding the   *)
(* failure description (a fixed text for the domain lookup).               *)
C10_ErrorOnlyFinding ==
  (world.fetch = "ok" /\ Returned) =>
    \A cat \in DOMAIN Categories : \A check \in Range(Categories[cat]) :
      Fails(world, check) =>
        LET f == auditor.audit_results[cat][check]
        IN  DOMAIN f = {"error"} /\ f.error = FailureText(world, check)

C10_Witness ==
  /\ Returned /\ world.fetch = "ok"
  /\ "accessibility" \in world.exc /\ world.msg = "NoneType has no attribute"
  /\ auditor.audit_results.user_experience.accessibility.error = world.msg

(***************************************************************************)
(* Properties of the scores (AuditSpec).  Scores are in tenths.            *)
(***************************************************************************)
CategoryNames ==
  << "technical_seo", "on_page_seo", "off_page_seo", "user_experience",
     "security_performance" >>

ScoreKeys ==
  << "technical_seo_score", "on_page_seo_score", "off_page_seo_score",
     "user_experience_score", "security_performance_score" >>

Scored == Returned /\ Has(auditor.audit_results, "scores")

StatusBearing(d) == { k \in DOMAIN d : Has(d[k], "status") }

(* the mean of good=100, needs_improvement=50, anything else=0 over the    *)
(* status-bearing findings of a category dict, rounded to a tenth          *)
MeanPoints(d) ==
  LET sb == StatusBearing(d)
  IN  IF sb = {} THEN 0
      ELSE RoundTenths(
             100 * Cardinality({ k \in sb : d[k].status = "good" })
             + 50 * Cardinality({ k \in sb : d[k].status = "needs_improvement" }),
             Cardinality(sb))

CategoryScore(i) == auditor.audit_results.scores[ScoreKeys[i]]

(* the sum and the number of the positive category scores, leaving out     *)
(* the categories in skip                                                  *)
PositiveSum(skip) ==
  SumSeq([ i \in DOMAIN ScoreKeys |->
             IF i \notin skip /\ CategoryScore(i) > 0
             THEN CategoryScore(i) ELSE 0 ])

PositiveCount(skip) ==
  Cardinality({ i \in DOMAIN ScoreKeys \ skip : CategoryScore(i) > 0 })

(* C11: each of the five category scores is the mean of the points of the  *)
(* status-bearing Findings of its category (good 100, needs_improvement    *)
(* 50, poor and error 0), and 0 when no Finding of the category has a      *)
(* status.                                                                 *)
C11_CategoryMeans ==
  Scored =>
    \A i \in DOMAIN ScoreKeys :
      CategoryScore(i) = MeanPoints(auditor.audit_results[CategoryNames[i]])

(* C12: the overall score is the mean of exactly the category scores that  *)
(* are greater than zero, and 0 when every category scores 0.              *)
C12_OverallIsMeanOfPositive ==
  Scored =>
    IF PositiveCount({}) = 0
    THEN auditor.audit_results.scores.overall_score = 0
    ELSE auditor.audit_results.scores.overall_score * PositiveCount({})
           = PositiveSum({})

(* the technical score is positive and not a whole number while another    *)
(* category scores 0                                                       *)
C12_Witness ==
  /\ Scored
  /\ CategoryScore(1) > 0 /\ CategoryScore(1) % 10 # 0
  /\ \E i \in DOMAIN ScoreKeys : CategoryScore(i) = 0
  /\ auditor.audit_results.scores.overall_score = CategoryScore(1)

(* C13: every category score and the overall score lie in [0, 100].        *)
C13_ScoresInRange ==
  Scored =>
    \A k \in DOMAIN auditor.audit_results.scores :
      auditor.audit_results.scores[k] \in 0..1000

(* every technical Finding has a status and every one of them is good *)
C13_Witness ==
  /\ Scored
  /\ StatusBearing(auditor.audit_results.technical_seo) = Range(TechnicalChecks)
  /\ CategoryScore(1) = 1000

AllFailed(d) == DOMAIN d # {} /\ \A k \in DOMAIN d : DOMAIN d[k] = {"error"}

(* C14: a category all of whose Findings are failed Findings scores 0 and  *)
(* is left out of the overall average: the overall score is the mean of    *)
(* the positive scores of the other categories.                            *)
C14_FailedCategoryExcluded ==
  Scored =>
    \A i \in DOMAIN ScoreKeys :
      AllFailed(auditor.audit_results[CategoryNames[i]]) =>
        /\ CategoryScore(i) = 0
        /\ IF PositiveCount({i}) = 0
           THEN auditor.audit_results.scores.overall_score = 0
           ELSE auditor.audit_results.scores.overall_score * PositiveCount({i})
                  = PositiveSum({i})

(* every security check has failed and the overall score is positive *)
C14_Witness ==
  /\ Scored
  /\ AllFailed(auditor.audit_results.security_performance)
  /\ auditor.audit_results.scores.security_performance_score = 0
  /\ auditor.audit_results.scores.overall_score > 0

(* the status fields of a report: those of the Findings of the five        *)
(* categories and those of the Core Web Vitals of the pagespeed data       *)
StatusesOf(results) ==
  UNION { { results[c][k].status : k \in StatusBearing(results[c]) } :
            c \in Range(CategoryNames) }
  \cup
  { results.pagespeed_insights[s].core_web_vitals.lcp.status :
      s \in { x \in DOMAIN results.pagespeed_insights :
                x \in {"mobile", "desktop"}
                /\ Has(results.pagespeed_insights[x], "core_web_vitals") } }

(* C15, as claimed: every status of every Finding is one of good,          *)
(* needs_improvement, poor, error.                                         *)
C15_StatusInFourValues ==
  Returned =>
    StatusesOf(auditor.audit_results)
      \subseteq {"good", "needs_improvement", "poor", "error"}

(* C15, amended: every status of every Finding is one of good,             *)
(* needs_improvement, poor, requires_external_tools; the last one is the   *)
(* status of the backlink Finding of every audit that fetched its page,    *)
(* and of no other Finding.                                                *)
C15_StatusValues ==
  Returned =>
    /\ StatusesOf(auditor.audit_results)
         \subseteq {"good", "needs_improvement", "poor",
                    "requires_external_tools"}
    /\ \A i \in DOMAIN CategoryNames :
         \A k \in StatusBearing(auditor.audit_results[CategoryNames[i]]) :
           auditor.audit_results[CategoryNames[i]][k].status
               = "requires_external_tools"
             <=> k = "backlink_analysis"
    /\ world.fetch = "ok" =>
         auditor.audit_results.off_page_seo.backlink_analysis.status
           = "requires_external_tools"

(* a report with a poor Finding, a needs_improvement Finding, the backlink *)
(* Finding and pagespeed data                                              *)
C15_Witness ==
  /\ Returned
  /\ {"poor", "needs_improvement", "requires_external_tools"}
       \subseteq StatusesOf(auditor.audit_results)
  /\ Has(auditor.audit_results.pagespeed_insights, "mobile")
  /\ Has(auditor.audit_results.pagespeed_insights.mobile, "core_web_vitals")

(***************************************************************************)
(* Properties of the link probe (AuditSpec).                               *)
(***************************************************************************)
ProbeFinding == auditor.audit_results.technical_seo.broken_links

(* the probe has run to its end and its Finding is in the report *)
ProbeDone ==
  /\ Has(auditor.audit_results, "technical_seo")
  /\ Has(auditor.audit_results.technical_seo, "broken_links")
  /\ Has(ProbeFinding, "status")

(* the requests of the probe whose answer is a status >= 400 or a          *)
(* transport exception                                                     *)
BrokenRequests ==
  { k \in 1..ProbeFinding.total_checked :
      HeadOf(world, k).raised \/ HeadOf(world, k).status_code >= 400 }

(* C16: the link probe issues at most 20 existence checks per audit,       *)
(* whatever the number of anchors of the page.                             *)
C16_AtMostTwentyChecks == ProbeDone => ProbeFinding.total_checked <= 20

(* a page with more than 20 anchors, 20 of which were checked *)
C16_Witness ==
  /\ ProbeDone
  /\ Len(DocOf(world.page).links) > 20
  /\ ProbeFinding.total_checked = 20

(* C17: after the link probe broken_count equals len(internal) +           *)
(* len(external), for every mix of link outcomes.                          *)
C17_BrokenCountIsListed ==
  ProbeDone =>
    ProbeFinding.broken_count
      = Len(ProbeFinding.internal) + Len(ProbeFinding.external)

(* C18: a broken link is in the internal list if and only if the host of   *)
(* its resolved url is exactly the audited domain; a link to another host  *)
(* is in the external list.                                                *)
C18_ExactHostMatch ==
  ProbeDone =>
    /\ \A n \in DOMAIN ProbeFinding.internal :
         Netloc(ProbeFinding.internal[n].url) = auditor.domain
    /\ \A n \in DOMAIN ProbeFinding.external :
         Netloc(ProbeFinding.external[n].url) # auditor.domain

(* C19: the broken count is the number of probed links whose check         *)
(* answered a status >= 400 or raised a transport exception, and the       *)
(* Finding has status good if and only if that count is 0.                 *)
C19_BrokenAndGood ==
  ProbeDone =>
    /\ ProbeFinding.broken_count = Cardinality(BrokenRequests)
    /\ ProbeFinding.status = "good" <=> ProbeFinding.broken_count = 0
    /\ ProbeFinding.status \in {"good", "needs_improvement"}

(* a probe that met a status >= 400, a transport exception and a link in   *)
(* order                                                                   *)
C19_Witness ==
  /\ ProbeDone
  /\ ProbeFinding.status = "needs_improvement"
  /\ \E k \in BrokenRequests : HeadOf(world, k).raised
  /\ \E k \in BrokenRequests : ~HeadOf(world, k).raised
  /\ BrokenRequests # 1..ProbeFinding.total_checked

(***************************************************************************)
(* Determinism of the pipeline (TwinSpec).                                 *)
(***************************************************************************)
ReportCategories == Range(CategoryNames) \cup {"pagespeed_insights"}

(* a Finding without its timing field: the measured response time *)
Untimed(check, f) ==
  IF check = "response_time" THEN [ x \in DOMAIN f \ {"value"} |-> f[x] ] ELSE f

(* the Findings of two reports are the same in every category, timing      *)
(* fields and the checks in skip apart                                     *)
SameFindings(r, q, skip) ==
  \A c \in ReportCategories :
    /\ DOMAIN r[c] = DOMAIN q[c]
    /\ \A k \in DOMAIN r[c] \ skip : Untimed(k, r[c][k]) = Untimed(k, q[c][k])

(* C20, as claimed: two runs against the same document, headers and        *)
(* network answers give the same Findings in every category, apart from    *)
(* the timing fields.                                                      *)
C20_Deterministic ==
  \A i, j \in DOMAIN jobs :
    SameFindings(jobs[i].audit_results, jobs[j].audit_results, {})

(* C20, amended: the two runs give the same Findings apart from the timing *)
(* fields and the domain-age Finding, which is computed from the wall      *)
(* clock; two runs at the same time agree on that Finding too.             *)
C20_DeterministicButDomainAge ==
  \A i, j \in DOMAIN jobs :
    /\ SameFindings(jobs[i].audit_results, jobs[j].audit_results,
                    {"domain_authority"})
    /\ jobs[i].audit_results.audit_timestamp
           = jobs[j].audit_results.audit_timestamp
         => SameFindings(jobs[i].audit_results, jobs[j].audit_results, {})

(* two runs at different times, with a failed check, whose domain-age      *)
(* Findings differ                                                         *)
C20_Witness ==
  /\ Len(jobs) = 2
  /\ world.exc # {}
  /\ jobs[1].audit_results.audit_timestamp # jobs[2].audit_results.audit_timestamp
  /\ Has(jobs[1].audit_results.off_page_seo, "domain_authority")
  /\ Has(jobs[1].audit_results.off_page_seo.domain_authority, "status")
  /\ jobs[1].audit_results.off_page_seo.domain_authority.status
       # jobs[2].audit_results.off_page_seo.domain_authority.status

(***************************************************************************)
(* Properties of the document model (AuditSpec).                           *)
(***************************************************************************)
(* the page was fetched and the analyzers have the document *)
Fetched == world.fetch = "ok" /\ auditor.pc \notin {"init", "fetch", "crashed"}

(* the auditor as it is right after the fetch, whatever ran since *)
FreshAuditor == [auditor EXCEPT !.soup = DocOf(world.page)]

(* C21: no analyzer changes the document model, so the Finding of an       *)
(* analyzer is the one it gives on the document as fetched, whichever      *)
(* analyzers ran before it.                                                *)
C21_DocumentReadOnly ==
  Fetched =>
    /\ auditor.soup = DocOf(world.page)
    /\ (Returned /\ world.exc = {}) =>
         /\ auditor.audit_results.user_experience.accessibility
              = analyze_accessibility(FreshAuditor)
         /\ auditor.audit_results.user_experience.responsive_design
              = check_responsive_design(FreshAuditor)
         /\ auditor.audit_results.security_performance.performance_enhancements
              = check_performance_enhancements(FreshAuditor)

(* C27: the responsive_design Finding has status good if and only if the   *)
(* fetched document has a viewport meta tag and at least one '@media'      *)
(* occurrence, an occurrence inside a style element included.              *)
C27_ResponsiveIffViewportAndMedia ==
  (Fetched /\ Returned /\ "responsive_design" \notin world.exc) =>
    ( auditor.audit_results.user_experience.responsive_design.status = "good"
      <=> /\ DocOf(world.page).viewport # None
          /\ DocOf(world.page).style_media + DocOf(world.page).other_media > 0 )

(***************************************************************************)
(* Properties of single analyzers (AuditSpec).                             *)
(***************************************************************************)
AccessibilityFinding == auditor.audit_results.user_experience.accessibility

(* C28: the parts of the accessibility score stay under their caps, the    *)
(* form-label part under 30 also when there are more labels than inputs,   *)
(* and the score lies in [0, 100].                                         *)
C28_AccessibilityBounded ==
  (Fetched /\ Returned /\ "accessibility" \notin world.exc) =>
    /\ AccessibilityFinding.accessibility_score \in 0..1000
    /\ AccessibilityFinding.total_images > 0 =>
         AccessibilityFinding.images_with_alt * 30
           <= 30 * AccessibilityFinding.total_images
    /\ AccessibilityFinding.total_inputs > 0 =>
         AccessibilityFinding.form_labels * 30
           <= 30 * AccessibilityFinding.total_inputs

StructuredFinding == auditor.audit_results.technical_seo.structured_data

(* C29: total_schemas is the number of JSON-LD blocks that parse plus the  *)
(* number of microdata elements plus the number of RDFa elements, a        *)
(* malformed JSON-LD block does not make the Finding an error, and the     *)
(* status is good if and only if the total is greater than 0.              *)
C29_SchemaTotal ==
  (Fetched /\ Has(auditor.audit_results.technical_seo, "structured_data")
     /\ "structured_data" \notin world.exc) =>
    /\ Has(StructuredFinding, "status") /\ ~Has(StructuredFinding, "error")
    /\ StructuredFinding.total_schemas
         = Len(SelectSeq(DocOf(world.page).json_ld, LAMBDA b : b = "valid"))
           + DocOf(world.page).microdata + DocOf(world.page).rdfa
    /\ StructuredFinding.status = "good" <=> StructuredFinding.total_schemas > 0

(***************************************************************************)
(* Properties of the returned report (AuditSpec).                          *)
(***************************************************************************)
ScoresBlock ==
  Range(ScoreKeys) \cup {"overall_score"}

(* C25, as claimed: every report that audit_website returns has a Scores   *)
(* block with one score per category and an overall score, a report with   *)
(* a top-level error included.                                             *)
C25_AlwaysScores ==
  Returned =>
    /\ Has(auditor.audit_results, "scores")
    /\ DOMAIN auditor.audit_results.scores = ScoresBlock

(* C25, amended: a returned report has a Scores block, with one score per  *)
(* category and an overall score, exactly when it has no top-level error:  *)
(* a report of an audit that aborted has no Scores block.                  *)
C25_ScoresUnlessError ==
  Returned =>
    /\ Has(auditor.audit_results, "scores") <=> ~Has(auditor.audit_results, "error")
    /\ Has(auditor.audit_results, "error") <=> world.fetch # "ok"
    /\ Has(auditor.audit_results, "scores") =>
         DOMAIN auditor.audit_results.scores = ScoresBlock

(* a report with a top-level error and no Scores block was printed *)
C25_Witness ==
  /\ auditor.pc = "reported"
  /\ Has(auditor.audit_results, "error")
  /\ ~Has(auditor.audit_results, "scores")
  /\ report # <<>>

(***************************************************************************)
(* Properties of the routes (Spec).                                        *)
(***************************************************************************)
IssuedIds == { jobs[j].audit_id : j \in DOMAIN jobs }

(* the identifiers that a submission can be given, and one that none is *)
IdUniverse ==
  { AuditId(t, u) : t \in 0..MaxClock, u \in Urls } \cup {UnknownId}

(* the url of the request is missing or blank *)
Blank(req) ==
  \A i \in DOMAIN Get(req.data, "url", <<>>) : req.data.url[i] = " "

C23_UnknownIsRunning ==
  /\ UnknownId \notin IssuedIds
  /\ \A id \in IdUniverse :
       id \notin IssuedIds => StatusOf(audit_results_cache, id) = "running"

(* an unfinished job and an identifier never issued both read 'running'    *)
(* while a finished job reads 'completed'                                  *)
C23_Witness ==
  /\ \E j, k \in DOMAIN jobs :
       /\ jobs[j].pc = "auditing"
       /\ StatusOf(audit_results_cache, jobs[j].audit_id) = "running"
       /\ StatusOf(audit_results_cache, jobs[k].audit_id) = "completed"
  /\ StatusOf(audit_results_cache, UnknownId) = "running"

C26_OthersComplete ==
  \A j, k \in DOMAIN jobs :
    (j # k /\ jobs[j].pc = "auditing") =>
      \/ StatusOf(audit_results_cache, jobs[k].audit_id) = "completed"
      \/ jobs[k].pc \in {"start", "auditing", "has_report"}

====
